---- MODULE Spec2Model ----
(***************************************************************************)
(* A model of the caddy-cors middleware (cors.go): the startup sequence    *)
(* Provision, Validate and the request handler ServeHTTP with its helpers  *)
(* setHeader, isPreflight and shouldHandleCors.                            *)
(*                                                                         *)
(* A Go string is a sequence of one-character strings, so that             *)
(* strings.HasPrefix, strings.HasSuffix, strings.Contains, strings.Join,   *)
(* regexp.MatchString and fmt.Sprintf("%d") are computed character by      *)
(* character.  A header map (http.Header) is a function from the header    *)
(* names the handler touches to the sequence of values of that header;     *)
(* the empty sequence is an absent header.                                 *)
(***************************************************************************)
EXTENDS Integers, Sequences, FiniteSets

VARIABLES
    phase,      \* "loaded" | "provisioned" | "running" | "rejected"
    configured, \* the Cors struct as the configuration was loaded into it
    c,          \* the Cors struct (cors.go:16-28), logger left out
    validateErr,\* what Validate returned: "nil" | "error" ("none" before it ran)
    stage,      \* of the request in hand: "idle" | "received" | "returned"
    r,          \* the request in hand
    w0,         \* the response header map as ServeHTTP finds it
    w,          \* the response writer, as ServeHTTP left it once it returned
    handled,    \* what shouldHandleCors returned (FALSE if it was not called)
    nextErr,    \* what the next handler returned
    ret         \* what ServeHTTP returned

vars == <<phase, configured, c, validateErr, stage, r, w0, w, handled, nextErr, ret>>

----------------------------------------------------------------------------
(* Go strings used by the code and by the inputs *)

Empty == << >>
Star == <<"*">>
CommaSpace == <<",", " ">>
Comma == <<",">>
sGET == <<"G","E","T">>
sPOST == <<"P","O","S","T">>
sPUT == <<"P","U","T">>
sDELETE == <<"D","E","L","E","T","E">>
sPATCH == <<"P","A","T","C","H">>
sOPTIONS == <<"O","P","T","I","O","N","S">>
sTrue == <<"t","r","u","e">>
sAllowOrigin == <<"A","c","c","e","s","s","-","C","o","n","t","r","o","l","-",
                  "A","l","l","o","w","-","O","r","i","g","i","n">>

(* canonical header names, the keys of http.Header *)
hAllowOrigin == "Access-Control-Allow-Origin"
hVary == "Vary"
hAllowMethods == "Access-Control-Allow-Methods"
hAllowHeaders == "Access-Control-Allow-Headers"
hMaxAge == "Access-Control-Max-Age"
hExposeHeaders == "Access-Control-Expose-Headers"
hAllowCredentials == "Access-Control-Allow-Credentials"

HeaderNames == {hAllowOrigin, hVary, hAllowMethods, hAllowHeaders, hMaxAge,
                hExposeHeaders, hAllowCredentials}

----------------------------------------------------------------------------
(* Library functions of the Go standard library, as the code calls them *)

HasPrefix(s, p) == Len(s) >= Len(p) /\ SubSeq(s, 1, Len(p)) = p

HasSuffix(s, p) == Len(s) >= Len(p) /\ SubSeq(s, Len(s) - Len(p) + 1, Len(s)) = p

Contains(s, sub) ==
    \E i \in 1..(Len(s) - Len(sub) + 1) : SubSeq(s, i, i + Len(sub) - 1) = sub

RECURSIVE Join(_, _)
Join(elems, sep) ==
    IF elems = << >> THEN Empty
    ELSE IF Len(elems) = 1 THEN elems[1]
    ELSE elems[1] \o sep \o Join(Tail(elems), sep)

Digits == <<"0","1","2","3","4","5","6","7","8","9">>

RECURSIVE FormatNat(_)
FormatNat(n) ==
    IF n < 10 THEN <<Digits[n + 1]>>
    ELSE Append(FormatNat(n \div 10), Digits[(n % 10) + 1])

(* fmt.Sprintf("%d", n) *)
SprintfD(n) == IF n < 0 THEN <<"-">> \o FormatNat(0 - n) ELSE FormatNat(n)

(* regexp.MatchString(pattern, s) for the patterns built from literal       *)
(* characters, ".", a postfix "*", a leading "^", a trailing "$" and        *)
(* parentheses: the pattern fails to compile when its parentheses do not    *)
(* balance; a compiled pattern is searched for anywhere in s.               *)
RECURSIVE ParenDepthOk(_, _)
ParenDepthOk(p, depth) ==
    IF p = << >> THEN depth = 0
    ELSE IF p[1] = "(" THEN ParenDepthOk(Tail(p), depth + 1)
    ELSE IF p[1] = ")" THEN depth > 0 /\ ParenDepthOk(Tail(p), depth - 1)
    ELSE ParenDepthOk(Tail(p), depth)

RegexpCompiles(p) == ParenDepthOk(p, 0)

RECURSIVE MatchHere(_, _)
RECURSIVE MatchStar(_, _, _)
MatchHere(p, t) ==
    IF p = << >> THEN TRUE
    ELSE IF Len(p) >= 2 /\ p[2] = "*" THEN MatchStar(p[1], SubSeq(p, 3, Len(p)), t)
    ELSE IF p = <<"$">> THEN t = << >>
    ELSE IF t # << >> /\ (p[1] = "." \/ p[1] = t[1]) THEN MatchHere(Tail(p), Tail(t))
    ELSE FALSE

MatchStar(ch, p, t) ==
    \/ MatchHere(p, t)
    \/ /\ t # << >>
       /\ (ch = "." \/ ch = t[1])
       /\ MatchStar(ch, p, Tail(t))

RegexpSearch(p, t) ==
    IF p # << >> /\ p[1] = "^" THEN MatchHere(Tail(p), t)
    ELSE \E i \in 1..(Len(t) + 1) : MatchHere(p, SubSeq(t, i, Len(t)))

(* the pair (matched, err) regexp.MatchString returns *)
MatchString(pattern, s) ==
    IF RegexpCompiles(pattern)
    THEN [matched |-> RegexpSearch(pattern, s), err |-> "nil"]
    ELSE [matched |-> FALSE, err |-> "error"]

----------------------------------------------------------------------------
(* Program constants *)

DefaultMaxAge == 5
MaxAgeCap == 86400

DefaultOrigins == <<Star>>
DefaultMethods == <<sGET, sPOST, sPUT, sDELETE, sPATCH, sOPTIONS>>

----------------------------------------------------------------------------
(* Startup: Provision, then Validate *)

Provision(cfg) ==
    LET c1 == IF Len(cfg.AllowedOrigins) = 0
              THEN [cfg EXCEPT !.AllowedOrigins = DefaultOrigins] ELSE cfg
        c2 == IF Len(c1.AllowedMethods) = 0
              THEN [c1 EXCEPT !.AllowedMethods = DefaultMethods] ELSE c1
        c3 == IF c2.MaxAge = 0
              THEN [c2 EXCEPT !.MaxAge = DefaultMaxAge] ELSE c2
    IN  c3

(* variant: no cap *)
CapMaxAgeOff(age) == age

(* the cap of Validate on c.MaxAge *)
CapMaxAge(age) == IF age > MaxAgeCap THEN MaxAgeCap ELSE age

(* variant: only the first entry is looked at *)
MethodsErrorFirstOnly(methods) ==
    IF Len(methods) > 0 /\ Contains(methods[1], Comma)
    THEN "error" ELSE "nil"

(* the loop of Validate over c.AllowedMethods: the error it returns *)
MethodsError(methods) ==
    IF \E i \in 1..Len(methods) : Contains(methods[i], Comma)
    THEN "error" ELSE "nil"

(* Validate has a pointer receiver: cfg is the struct it leaves behind *)
Validate(cfg) ==
    [cfg |-> [cfg EXCEPT !.MaxAge = CapMaxAge(cfg.MaxAge)],
     err |-> MethodsError(cfg.AllowedMethods)]

----------------------------------------------------------------------------
(* Request handling.  A response writer rw is [header, log]: header is     *)
(* w.Header(), log is the sequence of calls the handler made on it and on  *)
(* the next handler, in order.                                             *)

SetEvent(name, value) == [op |-> "Set", name |-> name, value |-> value]
NextEvent == [op |-> "next", name |-> "", value |-> Empty]

(* http.Header.Set: the header's values become the single value *)
HeaderSet(header, name, value) == [header EXCEPT ![name] = <<value>>]

(* variant: the header is set whatever override_existing_cors is *)
setHeaderAlways(cfg, rw, headerName, headerValue) ==
    [header |-> HeaderSet(rw.header, headerName, headerValue),
     log |-> Append(rw.log, SetEvent(headerName, headerValue))]

setHeader(cfg, rw, headerName, headerValue) ==
    IF cfg.OverrideExistingCors
    THEN [header |-> HeaderSet(rw.header, headerName, headerValue),
          log |-> Append(rw.log, SetEvent(headerName, headerValue))]
    ELSE rw

(* variant: every OPTIONS request is a preflight *)
isPreflightMethodOnly(req) == req.Method = sOPTIONS

isPreflight(req) == req.Method = sOPTIONS /\ req.RequestMethod # Empty

(* variant: an entry of Regex form is never compared for equality *)
OriginEntryAdmitsTagged(allowedOrigin, origin) ==
    \/ allowedOrigin = Star
    \/ /\ HasPrefix(allowedOrigin, <<"^">>) /\ HasSuffix(allowedOrigin, <<"$">>)
       /\ LET m == MatchString(allowedOrigin, origin)
          IN  m.err = "nil" /\ m.matched
    \/ /\ ~(HasPrefix(allowedOrigin, <<"^">>) /\ HasSuffix(allowedOrigin, <<"$">>))
       /\ origin = allowedOrigin

(* one iteration of the loop of shouldHandleCors: TRUE when it returns true *)
OriginEntryAdmits(allowedOrigin, origin) ==
    \/ allowedOrigin = Star
    \/ /\ HasPrefix(allowedOrigin, <<"^">>) /\ HasSuffix(allowedOrigin, <<"$">>)
       /\ LET m == MatchString(allowedOrigin, origin)
          IN  m.err = "nil" /\ m.matched
    \/ origin = allowedOrigin

(* variant: a pattern that does not compile ends the loop with false *)
RECURSIVE OriginLoopStopsOnError(_, _)
OriginLoopStopsOnError(allowedOrigins, origin) ==
    IF allowedOrigins = << >> THEN FALSE
    ELSE IF OriginEntryAdmits(allowedOrigins[1], origin) THEN TRUE
    ELSE IF /\ HasPrefix(allowedOrigins[1], <<"^">>)
            /\ HasSuffix(allowedOrigins[1], <<"$">>)
            /\ MatchString(allowedOrigins[1], origin).err # "nil"
         THEN FALSE
    ELSE OriginLoopStopsOnError(Tail(allowedOrigins), origin)

RECURSIVE OriginLoop(_, _)
OriginLoop(allowedOrigins, origin) ==
    IF allowedOrigins = << >> THEN FALSE
    ELSE IF OriginEntryAdmits(allowedOrigins[1], origin) THEN TRUE
    ELSE OriginLoop(Tail(allowedOrigins), origin)

shouldHandleCors(cfg, req) == OriginLoop(cfg.AllowedOrigins, req.Origin)

(* the helper contains(list, item) that ServeHTTP calls *)
contains(list, item) == \E i \in 1..Len(list) : list[i] = item

(* variant: a policy with a wildcard entry answers with the wildcard *)
WriteOriginWildcard(cfg, rw, req) ==
    setHeader(cfg,
              setHeader(cfg, rw, hAllowOrigin,
                        IF contains(cfg.AllowedOrigins, Star) THEN Star ELSE req.Origin),
              hVary, sAllowOrigin)

(* ServeHTTP, lines 108-109 *)
WriteOrigin(cfg, rw, req) ==
    setHeader(cfg, setHeader(cfg, rw, hAllowOrigin, req.Origin), hVary, sAllowOrigin)

(* variant: the wildcard counts only as the first allowed header *)
WriteAllowHeadersFirstOnly(cfg, rw, req) ==
    IF Len(cfg.AllowedHeaders) > 0
    THEN IF cfg.AllowedHeaders[1] = Star
         THEN setHeader(cfg, rw, hAllowHeaders, req.RequestHeaders)
         ELSE setHeader(cfg, rw, hAllowHeaders, Join(cfg.AllowedHeaders, CommaSpace))
    ELSE rw

(* ServeHTTP, lines 120-128 *)
WriteAllowHeaders(cfg, rw, req) ==
    IF Len(cfg.AllowedHeaders) > 0
    THEN IF contains(cfg.AllowedHeaders, Star)
         THEN setHeader(cfg, rw, hAllowHeaders, req.RequestHeaders)
         ELSE setHeader(cfg, rw, hAllowHeaders, Join(cfg.AllowedHeaders, CommaSpace))
    ELSE rw

(* ServeHTTP, lines 130-135 *)
WriteMaxAge(cfg, rw) ==
    IF cfg.MaxAge > 0 THEN setHeader(cfg, rw, hMaxAge, SprintfD(cfg.MaxAge)) ELSE rw

(* ServeHTTP, lines 114-142: the preflight branch and the other one *)
WriteBranch(cfg, rw, req) ==
    IF isPreflight(req)
    THEN LET w1 == setHeader(cfg, rw, hAllowMethods, Join(cfg.AllowedMethods, CommaSpace))
             w2 == WriteAllowHeaders(cfg, w1, req)
         IN  WriteMaxAge(cfg, w2)
    ELSE IF Len(cfg.ExposedHeaders) > 0
         THEN setHeader(cfg, rw, hExposeHeaders, Join(cfg.ExposedHeaders, CommaSpace))
         ELSE rw

(* ServeHTTP, lines 144-147 *)
WriteCredentials(cfg, rw) ==
    IF cfg.AllowCredentials THEN setHeader(cfg, rw, hAllowCredentials, sTrue) ELSE rw

(* return next.ServeHTTP(w, r): the call is logged, its result returned *)
CallNext(rw, shouldHandle, err) ==
    [rw |-> [rw EXCEPT !.log = Append(@, NextEvent)],
     handled |-> shouldHandle,
     ret |-> err]

(* variant: a preflight request is answered without the next handler *)
ServeHTTPEndsPreflight(cfg, rw, req, err) ==
    IF req.Origin = Empty
    THEN CallNext(rw, FALSE, err)
    ELSE IF shouldHandleCors(cfg, req)
         THEN LET done == WriteCredentials(cfg,
                              WriteBranch(cfg, WriteOrigin(cfg, rw, req), req))
              IN  IF isPreflight(req)
                  THEN [rw |-> done, handled |-> TRUE, ret |-> "nil"]
                  ELSE CallNext(done, TRUE, err)
         ELSE CallNext(rw, FALSE, err)

ServeHTTP(cfg, rw, req, err) ==
    IF req.Origin = Empty
    THEN CallNext(rw, FALSE, err)
    ELSE IF shouldHandleCors(cfg, req)
         THEN CallNext(WriteCredentials(cfg, WriteBranch(cfg, WriteOrigin(cfg, rw, req), req)),
                       TRUE, err)
         ELSE CallNext(rw, FALSE, err)

----------------------------------------------------------------------------
(* Inputs: configurations and requests *)

MaxOrigins == 3
MaxHeaders == 2
MaxMethods == 2
AgeSlack == 1

SeqsUpTo(S, n) == UNION {[1..k -> S] : k \in 0..n}

sOriginAB == <<"a","b">>
sOriginB == <<"b">>
sOriginC == <<"c">>
sRegexA == <<"^","a",".","*","$">>
sRegexBad == <<"^","(","a","$">>
sGetPost == <<"G","E","T",",","P","O","S","T">>
sX == <<"X","-","C","u","s","t","o","m">>
sY == <<"Y">>
sE == <<"E","T","a","g">>
sF == <<"F">>
sOld == <<"o","l","d">>
sOld2 == <<"n","u","l","l">>
sAcceptEncoding == <<"A","c","c","e","p","t","-","E","n","c","o","d","i","n","g">>

(* allowed_origins entries: wildcard, exact, regex, regex that does not compile *)
OriginEntries == {Star, sOriginB, sRegexA, sRegexBad}

(* Origin header values of a request; Empty is no Origin header *)
RequestOrigins == {Empty, sOriginAB, sOriginB, sOriginC, Star, sRegexBad}

MkRequest(m, o, rm, rh) ==
    [Method |-> m, Origin |-> o, RequestMethod |-> rm, RequestHeaders |-> rh]

(* method, Access-Control-Request-Method, Access-Control-Request-Headers *)
Requests ==
    {MkRequest(sh[1], o, sh[2], sh[3]) :
        o \in RequestOrigins,
        sh \in {<<sGET, Empty, Empty>>, <<sOPTIONS, Empty, Empty>>,
                <<sOPTIONS, sPOST, Empty>>, <<sOPTIONS, sPOST, sX>>,
                <<sGET, sPOST, sX>>}}

NoHeaders == [h \in HeaderNames |-> << >>]

(* the response headers earlier handlers may have set before ServeHTTP runs *)
PriorHeaders ==
    {NoHeaders,
     [NoHeaders EXCEPT ![hVary] = <<sAcceptEncoding>>],
     [NoHeaders EXCEPT ![hVary] = <<sAcceptEncoding>>,
                       ![hAllowOrigin] = <<sOld, sOld2>>,
                       ![hAllowMethods] = <<sOld>>,
                       ![hAllowHeaders] = <<sOld>>,
                       ![hMaxAge] = <<sOld>>,
                       ![hExposeHeaders] = <<sOld>>,
                       ![hAllowCredentials] = <<sOld>>]}

NextResults == {"nil", "error"}

NoRequest == MkRequest(Empty, Empty, Empty, Empty)

Ages ==
    ((0 - AgeSlack)..AgeSlack)
        \cup ((MaxAgeCap - AgeSlack)..(MaxAgeCap + AgeSlack))
        \cup {100000}

(* the state after the configuration was loaded into a new Cors struct *)
InitWith(origins, methods, ages, headers, exposed, overrides, credentials) ==
    /\ phase = "loaded"
    /\ c \in [AllowedOrigins : origins,
              OverrideExistingCors : overrides,
              AllowedMethods : methods,
              AllowCredentials : credentials,
              MaxAge : ages,
              AllowedHeaders : headers,
              ExposedHeaders : exposed]
    /\ configured = c
    /\ validateErr = "none"
    /\ stage = "idle"
    /\ r = NoRequest
    /\ w0 = NoHeaders
    /\ w = [header |-> NoHeaders, log |-> << >>]
    /\ handled = FALSE
    /\ nextErr = "nil"
    /\ ret = "nil"

(* request handling: a few origin lists, every list of allowed headers *)
Init ==
    InitWith({<< >>, <<sOriginB>>, <<sRegexBad, sRegexA>>},
             {<< >>, <<sGET, sPOST>>, <<sGetPost>>},
             {-1, 0},
             SeqsUpTo({Star, sX, sY}, MaxHeaders),
             {<< >>, <<sE, sF>>},
             BOOLEAN, BOOLEAN)

(* origin admission: every list of allowed origins *)
InitOrigin ==
    InitWith(SeqsUpTo(OriginEntries, MaxOrigins),
             {<< >>, <<sGetPost>>},
             {0},
             {<< >>},
             {<< >>},
             BOOLEAN, {FALSE})

(* startup: every list of allowed methods, max_age around its limits *)
InitConfig ==
    InitWith({<< >>},
             SeqsUpTo({sGET, sPOST, sGetPost}, MaxMethods),
             Ages,
             {<< >>, <<Star>>},
             {<< >>},
             BOOLEAN, {FALSE})

----------------------------------------------------------------------------
(* Actions *)

DoProvision ==
    /\ phase = "loaded"
    /\ c' = Provision(c)
    /\ phase' = "provisioned"
    /\ UNCHANGED <<configured, validateErr, stage, r, w0, w, handled, nextErr, ret>>

(* a policy Validate rejects is never installed as a handler *)
DoValidate ==
    /\ phase = "provisioned"
    /\ LET v == Validate(c)
       IN  /\ c' = v.cfg
           /\ validateErr' = v.err
           /\ phase' = IF v.err = "nil" THEN "running" ELSE "rejected"
    /\ UNCHANGED <<configured, stage, r, w0, w, handled, nextErr, ret>>

(* the server hands a request and its response writer to the handler *)
Receive ==
    /\ phase = "running"
    /\ stage = "idle"
    /\ \E req \in Requests, h \in PriorHeaders :
          /\ r' = req
          /\ w0' = h
          /\ w' = [header |-> h, log |-> << >>]
    /\ stage' = "received"
    /\ UNCHANGED <<phase, configured, c, validateErr, handled, nextErr, ret>>

(* ServeHTTP has a value receiver: it works on a copy of c *)
DoServeHTTP ==
    /\ phase = "running"
    /\ stage = "received"
    /\ \E e \in NextResults :
          LET out == ServeHTTP(c, w, r, e)
          IN  /\ w' = out.rw
              /\ handled' = out.handled
              /\ nextErr' = e
              /\ ret' = out.ret
    /\ stage' = "returned"
    /\ UNCHANGED <<phase, configured, c, validateErr, r, w0>>

(* the request is over: nothing of it outlives it *)
Finish ==
    /\ stage = "returned"
    /\ stage' = "idle"
    /\ r' = NoRequest
    /\ w0' = NoHeaders
    /\ w' = [header |-> NoHeaders, log |-> << >>]
    /\ handled' = FALSE
    /\ nextErr' = "nil"
    /\ ret' = "nil"
    /\ UNCHANGED <<phase, configured, c, validateErr>>

Next == DoProvision \/ DoValidate \/ Receive \/ DoServeHTTP \/ Finish

Spec == Init /\ [][Next]_vars
SpecOrigin == InitOrigin /\ [][Next]_vars
SpecConfig == InitConfig /\ [][Next]_vars

----------------------------------------------------------------------------
(* Vocabulary of the properties *)

Returned == phase = "running" /\ stage = "returned"

IsWildcard(entry) == entry = Star
IsRegexForm(entry) ==
    Len(entry) >= 2 /\ entry[1] = "^" /\ entry[Len(entry)] = "$"
IsExact(entry) == ~IsWildcard(entry) /\ ~IsRegexForm(entry)

RegexAdmits(entry, origin) ==
    IsRegexForm(entry) /\ RegexpCompiles(entry) /\ RegexpSearch(entry, origin)

(* allowed_origins admits the origin: some entry is the wildcard, a regex  *)
(* that matches it, or equal to it                                         *)
OriginAdmitted(list, origin) ==
    \E i \in 1..Len(list) :
        \/ IsWildcard(list[i])
        \/ RegexAdmits(list[i], origin)
        \/ list[i] = origin

Permutations(seq) ==
    {[i \in 1..Len(seq) |-> seq[f[i]]] :
        f \in {g \in [1..Len(seq) -> 1..Len(seq)] :
                  \A i, j \in 1..Len(seq) : g[i] = g[j] => i = j}}

(* the Set calls the handler made on header name, in order *)
SetsOf(log, name) == SelectSeq(log, LAMBDA e : e.op = "Set" /\ e.name = name)

----------------------------------------------------------------------------
(* C4 as stated: shouldHandleCors returns true for a non-empty origin iff  *)
(* some entry is the wildcard, a Regex-form entry that compiles and        *)
(* matches, or an Exact entry (neither wildcard nor Regex-form) equal to   *)
(* the origin; a Regex-form entry that does not compile or match never     *)
(* admits the origin.                                                      *)
C4_AdmitsIffTaggedEntry ==
    (Returned /\ r.Origin # Empty) =>
        (handled <=>
            \E i \in 1..Len(c.AllowedOrigins) :
                \/ IsWildcard(c.AllowedOrigins[i])
                \/ RegexAdmits(c.AllowedOrigins[i], r.Origin)
                \/ IsExact(c.AllowedOrigins[i]) /\ c.AllowedOrigins[i] = r.Origin)

(* C4 amended: shouldHandleCors returns true for a non-empty origin iff    *)
(* some entry is the wildcard, or a Regex-form entry that compiles and     *)
(* matches the origin, or any entry (Exact or Regex-form) byte-for-byte    *)
(* equal to the origin; a pattern that does not compile raises no error    *)
(* (ServeHTTP returns what the next handler returned) and the following    *)
(* entries are still evaluated.                                            *)
C4_AdmitsIffEntryMatches ==
    (Returned /\ r.Origin # Empty) =>
        /\ handled <=> OriginAdmitted(c.AllowedOrigins, r.Origin)
        /\ ret = nextErr

(* C4 witness: a pattern that does not compile is passed over and a later  *)
(* exact entry admits the origin                                           *)
C4_Witness ==
    /\ Returned
    /\ c.AllowedOrigins = <<sRegexBad, sRegexA, sOriginB>>
    /\ r.Origin = sOriginB
    /\ handled

(* C5: with a wildcard entry anywhere in allowed_origins every non-empty   *)
(* origin is admitted, and the admission result is the same for every      *)
(* reordering of the entries.                                              *)
C5_WildcardAnywhereOrderFree ==
    (Returned /\ r.Origin # Empty) =>
        /\ (\E i \in 1..Len(c.AllowedOrigins) : c.AllowedOrigins[i] = Star) => handled
        /\ \A perm \in Permutations(c.AllowedOrigins) :
              OriginLoop(perm, r.Origin) = handled

(* C5 witness: the wildcard comes last, after a pattern that does not      *)
(* compile and an exact entry that differs from the origin                 *)
C5_Witness ==
    /\ Returned
    /\ c.AllowedOrigins = <<sRegexBad, sOriginB, Star>>
    /\ r.Origin = sOriginC
    /\ handled

----------------------------------------------------------------------------
(* the request is a preflight: OPTIONS with a non-empty                    *)
(* Access-Control-Request-Method                                           *)
PreflightRequest(req) == req.Method = sOPTIONS /\ Len(req.RequestMethod) > 0

(* the origin of the request in hand is admitted by the policy *)
Admitted == r.Origin # Empty /\ OriginAdmitted(c.AllowedOrigins, r.Origin)

SetCalls(log) == SelectSeq(log, LAMBDA e : e.op = "Set")
NextCalls(log) == SelectSeq(log, LAMBDA e : e.op = "next")

HasComma(str) == \E i \in 1..Len(str) : str[i] = ","

(* C1: with no or an empty Origin, an origin that is not admitted, or      *)
(* override_existing_cors false, ServeHTTP leaves the response header map  *)
(* exactly as it found it: it sets no header, Vary included.               *)
C1_HeadersUntouched ==
    (Returned /\ (r.Origin = Empty \/ ~Admitted \/ ~c.OverrideExistingCors)) =>
        /\ w.header = w0
        /\ SetCalls(w.log) = << >>

(* C1 witness: an admitted preflight request under override false, on a    *)
(* response that already carries CORS headers                              *)
C1_Witness ==
    /\ Returned
    /\ Admitted /\ PreflightRequest(r)
    /\ ~c.OverrideExistingCors /\ c.AllowCredentials
    /\ Len(c.AllowedHeaders) > 0
    /\ w0[hAllowOrigin] = <<sOld, sOld2>>
    /\ w.header = w0

(* C2: on every branch ServeHTTP calls the next handler exactly once,      *)
(* after all of its own header writes, and returns what the next handler   *)
(* returned.                                                               *)
C2_NextOnceLastResultUnchanged ==
    Returned =>
        /\ Len(NextCalls(w.log)) = 1
        /\ w.log[Len(w.log)] = NextEvent
        /\ ret = nextErr

(* C2 witness: an admitted preflight request with header writes before     *)
(* the next handler, which fails                                           *)
C2_Witness ==
    /\ Returned
    /\ Admitted /\ PreflightRequest(r) /\ c.OverrideExistingCors
    /\ Len(w.log) >= 4
    /\ nextErr = "error" /\ ret = "error"

(* C3 as stated: after Provision then Validate, 0 <= max_age <= 86400 for  *)
(* every configured max_age.                                               *)
C3_MaxAgeInRange ==
    (validateErr # "none") => (0 <= c.MaxAge /\ c.MaxAge <= MaxAgeCap)

(* C3 amended: after Provision then Validate max_age is at most 86400; it  *)
(* is between 1 and 86400 when the configured value was not negative, and  *)
(* a negative configured value stays as it is; request handling never      *)
(* changes it.                                                             *)
C3_MaxAgeCappedNegativeKept ==
    /\ [](validateErr # "none" =>
            /\ c.MaxAge <= MaxAgeCap
            /\ configured.MaxAge >= 0 => 1 <= c.MaxAge
            /\ configured.MaxAge < 0 => c.MaxAge = configured.MaxAge)
    /\ [][validateErr # "none" => c'.MaxAge = c.MaxAge]_vars

(* C3 witness: a configured max_age above the cap, read by a preflight     *)
(* request after startup                                                   *)
C3_Witness ==
    /\ Returned
    /\ configured.MaxAge > MaxAgeCap
    /\ c.MaxAge = MaxAgeCap
    /\ PreflightRequest(r) /\ c.OverrideExistingCors
    /\ w.header[hMaxAge] = <<SprintfD(MaxAgeCap)>>

(* C6: Validate returns an error iff some allowed_methods entry contains a *)
(* comma, whatever the other fields are, and a rejected policy handles no  *)
(* request.                                                                *)
C6_ValidateRejectsCommaMethods ==
    /\ (validateErr # "none") =>
          (validateErr = "error" <=>
              \E i \in 1..Len(configured.AllowedMethods) :
                  HasComma(configured.AllowedMethods[i]))
    /\ (validateErr = "error") => (phase = "rejected" /\ stage = "idle")
    /\ (stage # "idle") => validateErr = "nil"

(* C6 witness: the second method entry holds the comma *)
C6_Witness ==
    /\ phase = "rejected"
    /\ validateErr = "error"
    /\ configured.AllowedMethods = <<sGET, sGetPost>>

----------------------------------------------------------------------------
sGetCommaPost == <<"G","E","T",","," ","P","O","S","T">>
sYCommaX == <<"Y",","," ","X","-","C","u","s","t","o","m">>
sECommaF == <<"E","T","a","g",","," ","F">>

(* C7 as stated: for an admitted request under override true,              *)
(* Access-Control-Allow-Origin ends with exactly one value, the request's  *)
(* Origin, and the handler never writes the wildcard token as that value.  *)
C7_EchoesOriginNeverWildcard ==
    (Returned /\ Admitted /\ c.OverrideExistingCors) =>
        /\ w.header[hAllowOrigin] = <<r.Origin>>
        /\ \A i \in 1..Len(w.log) :
              (w.log[i].op = "Set" /\ w.log[i].name = hAllowOrigin)
                  => w.log[i].value # Star

(* C7 amended: for an admitted request under override true,                *)
(* Access-Control-Allow-Origin ends with exactly one value, the request's  *)
(* Origin, in place of any earlier values; every value the handler writes  *)
(* to it is the request's Origin, so it is the wildcard token only when    *)
(* the Origin header itself is "*".                                        *)
C7_EchoesOrigin ==
    (Returned /\ Admitted /\ c.OverrideExistingCors) =>
        /\ w.header[hAllowOrigin] = <<r.Origin>>
        /\ Len(SetsOf(w.log, hAllowOrigin)) = 1
        /\ \A i \in 1..Len(w.log) :
              (w.log[i].op = "Set" /\ w.log[i].name = hAllowOrigin)
                  => w.log[i].value = r.Origin

(* C7 witness: admitted through the wildcard entry, two earlier values     *)
(* replaced by the origin                                                  *)
C7_Witness ==
    /\ Returned
    /\ c.AllowedOrigins = <<Star>> /\ c.OverrideExistingCors
    /\ r.Origin = sOriginC
    /\ w0[hAllowOrigin] = <<sOld, sOld2>>
    /\ w.header[hAllowOrigin] = <<sOriginC>>

(* C8: under override true an admitted preflight request (OPTIONS with a   *)
(* non-empty Access-Control-Request-Method) gets                           *)
(* Access-Control-Allow-Methods, the methods joined by ", ", and no write  *)
(* of Access-Control-Expose-Headers; any other admitted request gets       *)
(* Access-Control-Expose-Headers when exposed_headers is non-empty and no  *)
(* write of Allow-Methods, Allow-Headers or Max-Age.                       *)
C8_PreflightBranches ==
    (Returned /\ Admitted /\ c.OverrideExistingCors) =>
        IF PreflightRequest(r)
        THEN /\ w.header[hAllowMethods] = <<Join(c.AllowedMethods, CommaSpace)>>
             /\ c.AllowedMethods = <<sGET, sPOST>> =>
                   w.header[hAllowMethods] = <<sGetCommaPost>>
             /\ Len(SetsOf(w.log, hAllowMethods)) = 1
             /\ SetsOf(w.log, hExposeHeaders) = << >>
             /\ w.header[hExposeHeaders] = w0[hExposeHeaders]
        ELSE /\ Len(c.ExposedHeaders) > 0 =>
                   w.header[hExposeHeaders] = <<Join(c.ExposedHeaders, CommaSpace)>>
             /\ Len(c.ExposedHeaders) = 0 => SetsOf(w.log, hExposeHeaders) = << >>
             /\ \A h \in {hAllowMethods, hAllowHeaders, hMaxAge} :
                   /\ SetsOf(w.log, h) = << >>
                   /\ w.header[h] = w0[h]

(* C8 witness: a bare OPTIONS request takes the branch that is not the     *)
(* preflight one                                                           *)
C8_Witness ==
    /\ Returned /\ Admitted /\ c.OverrideExistingCors
    /\ r.Method = sOPTIONS /\ r.RequestMethod = Empty
    /\ c.ExposedHeaders = <<sE, sF>>
    /\ Len(c.AllowedHeaders) > 0
    /\ w.header[hExposeHeaders] = <<sECommaF>>
    /\ w.header[hAllowMethods] = << >>

(* C9: for an admitted preflight request under override true,              *)
(* Access-Control-Allow-Headers is not written when allowed_headers is     *)
(* empty, is the request's Access-Control-Request-Headers value when       *)
(* allowed_headers holds "*" at any position, and is otherwise the         *)
(* allowed_headers joined by ", " in configured order.                     *)
C9_AllowHeaders ==
    (Returned /\ Admitted /\ c.OverrideExistingCors /\ PreflightRequest(r)) =>
        IF Len(c.AllowedHeaders) = 0
        THEN /\ SetsOf(w.log, hAllowHeaders) = << >>
             /\ w.header[hAllowHeaders] = w0[hAllowHeaders]
        ELSE IF \E i \in 1..Len(c.AllowedHeaders) : c.AllowedHeaders[i] = Star
        THEN w.header[hAllowHeaders] = <<r.RequestHeaders>>
        ELSE /\ w.header[hAllowHeaders] = <<Join(c.AllowedHeaders, CommaSpace)>>
             /\ c.AllowedHeaders = <<sY, sX>> => w.header[hAllowHeaders] = <<sYCommaX>>

(* C9 witness: the wildcard is the second allowed header and the request   *)
(* asks for X-Custom                                                       *)
C9_Witness ==
    /\ Returned /\ Admitted /\ c.OverrideExistingCors /\ PreflightRequest(r)
    /\ c.AllowedHeaders = <<sY, Star>>
    /\ r.RequestHeaders = sX
    /\ w.header[hAllowHeaders] = <<sX>>

(* C10: for an admitted request under override true,                       *)
(* Access-Control-Allow-Origin is appended to Vary: the Vary values the    *)
(* response had before are all still there, with the new one.              *)
C10_VaryAppended ==
    (Returned /\ Admitted /\ c.OverrideExistingCors) =>
        /\ \E i \in 1..Len(w.header[hVary]) : w.header[hVary][i] = sAllowOrigin
        /\ \A j \in 1..Len(w0[hVary]) :
              \E i \in 1..Len(w.header[hVary]) : w.header[hVary][i] = w0[hVary][j]

====
